---- MODULE Spec2Model ----
(***************************************************************************)
(* Ringu<N>: a fixed-capacity byte ring buffer guarded by a spin lock      *)
(* (src/src/lib.rs), together with the producer / consumer loops of        *)
(* tests::multithread_write_read that drive it.                            *)
(*                                                                         *)
(* Every atomic operation of the source (load, compare_and_swap,           *)
(* fetch_add) and every access of a storage slot is one step of the        *)
(* context that executes it; contexts interleave at that granularity.      *)
(* The assertion of line 217 and the two final assertions of the test are  *)
(* stated as properties, they do not stop the loops.                       *)
(***************************************************************************)
EXTENDS Integers, Sequences, FiniteSets, TLC

\* ------------------------------------------------------------------ bounds
\* log2 of the capacity built by the test (Ringu<256> in the source)
CapBits == 1
\* width of usize, scaled down so that the cursors wrap within the run
UsizeBits == CapBits + 1
UsizeMod == 2 ^ UsizeBits
\* largest capacity the constructor is tried with (any N < 2^UsizeBits)
MaxCap == UsizeMod - 1
\* when roles are not separated: the number of contexts, and the number of
\* calls they make between them
NumCtx == 3
TotalCalls == 4

\* a write count that takes write_idx past the range of usize
WrapWrites == UsizeMod + 1

\* number of available() calls of a context that only observes
MaxQueries == 2

\* lib.rs:180-181
MAX_WRITE_COUNT == 5
MAX_READ_COUNT == MAX_WRITE_COUNT * 3
\* u8
ByteMod == 256

VARIABLES
    N,            \* const generic N: the capacity
    buf,          \* buf: [u8; N], indexed 0..N-1
    read_idx,     \* read_idx: AtomicUsize
    write_idx,    \* write_idx: AtomicUsize
    mut_lock,     \* mut_lock: AtomicBool
    read_count,   \* read_count: AtomicUsize
    roles,        \* context -> the operations it calls
    limit,        \* context -> the number of calls its loop makes
    pc,           \* context -> position in its current call
    op,           \* context -> "push" or "read", the call in progress
    i,            \* context -> loop index = calls completed
    write,        \* context -> local `write` of available()/empty()
    cur_idx,      \* context -> local cur_write_idx / cur_read_idx
    ret,          \* context -> transfer count returned by its last call
    byt,          \* context -> byte returned by its last read_one
    total_write_count,    \* TOTAL_WRITE_COUNT
    blocked_write_count,  \* BLOCKED_WRITE_COUNT
    outer_read_count,     \* outer_read_count
    pushed,       \* history: bytes of the push_one calls that returned 1
    readSeq       \* history: bytes of the read_one calls that returned 1

ring == <<N, buf, read_idx, write_idx, mut_lock, read_count>>
shared == <<buf, read_idx, write_idx, mut_lock>>
cfg == <<N, roles, limit>>
locals == <<pc, op, i, write, cur_idx, ret, byt>>
counters == <<total_write_count, blocked_write_count, outer_read_count>>
hist == <<pushed, readSeq>>
vars == <<ring, roles, limit, locals, counters, hist>>

Ctx == DOMAIN roles

\* ------------------------------------------------------- pure arithmetic
RECURSIVE BitAnd(_, _)
BitAnd(a, b) ==
    IF a = 0 \/ b = 0 THEN 0
    ELSE (a % 2) * (b % 2) + 2 * BitAnd(a \div 2, b \div 2)

\* a subtraction that saturates at 0 instead of wrapping
wrapping_sub_saturating(a, b) == IF a >= b THEN a - b ELSE 0

wrapping_sub(a, b) == (a - b + UsizeMod) % UsizeMod

\* fetch_add that loses the increment
wrapping_add_lost(a, b) == a % UsizeMod

\* fetch_add(b) on a usize: the value left in the atomic
wrapping_add(a, b) == (a + b) % UsizeMod

\* a mask one bit short
slot_short(idx, n) == BitAnd(idx, (n - 1) \div 2)

\* cur_idx & (N - 1)
slot(idx, n) == BitAnd(idx, n - 1)

\* compare_and_swap(current, new) on the flag: the previous value it
\* returns and the value it leaves
compare_and_swap(flag, current, new) ==
    [prev |-> flag, val |-> IF flag = current THEN new ELSE flag]

\* lock_me leaving its loop whatever the swap returned
acquired_always(prev) == TRUE

\* lock_me leaves its outer loop when the swap returned false
acquired(prev) == ~(prev # FALSE)

\* a release that swaps in the wrong direction
unlock_me_wrong(flag) == compare_and_swap(flag, FALSE, TRUE).val

\* unlock_me: the value its compare_and_swap(true, false) leaves
unlock_me(flag) == compare_and_swap(flag, TRUE, FALSE).val

\* full() comparing with > instead of ==
full_gt(avail, n) == avail > n

\* full() reporting a buffer full one byte early
full_early(avail, n) == avail >= n - 1

\* full(): available() == N
full(avail, n) == avail = n

\* empty() comparing with > instead of ==
empty_gt(w, r) == r > w

\* empty(): write == read
empty(w, r) == w = r

\* available(): write.wrapping_sub(read) of the two loaded cursors
available(w, r) == wrapping_sub(w, r)

\* vacant(): N - available()
vacant(avail, n) == n - avail

\* the u8 argument of the i-th push_one
arg(k) == k % ByteMod

\* l[1] + ... + l[k]
RECURSIVE SumTo(_, _)
SumTo(l, k) == IF k = 0 THEN 0 ELSE l[k] + SumTo(l, k - 1)

\* ------------------------------------------------------------ construction
NewRing(n) ==
    /\ N = n
    /\ buf = [s \in 0..(n - 1) |-> 0]
    /\ read_idx = 0
    /\ write_idx = 0
    /\ mut_lock = FALSE
    /\ read_count = 0

NewContexts(r, l) ==
    /\ roles = r
    /\ limit = l
    /\ pc = [c \in DOMAIN r |-> "idle"]
    /\ op = [c \in DOMAIN r |-> "none"]
    /\ i = [c \in DOMAIN r |-> 0]
    /\ write = [c \in DOMAIN r |-> 0]
    /\ cur_idx = [c \in DOMAIN r |-> 0]
    /\ ret = [c \in DOMAIN r |-> 0]
    /\ byt = [c \in DOMAIN r |-> 0]
    /\ total_write_count = 0
    /\ blocked_write_count = 0
    /\ outer_read_count = 0
    /\ pushed = <<>>
    /\ readSeq = <<>>

\* Ringu::<2^CapBits>::new_with_spin; context 1 is the spawned producer
\* thread, context 2 the consumer loop of the test
Init ==
    /\ NewRing(2 ^ CapBits)
    /\ NewContexts(1 :> {"push"} @@ 2 :> {"read"},
                   1 :> MAX_WRITE_COUNT @@ 2 :> MAX_READ_COUNT)

\* the constructor accepts every N
InitCap ==
    /\ \E n \in 1..MaxCap : NewRing(n)
    /\ NewContexts(1 :> {"push"} @@ 2 :> {"read"},
                   1 :> MAX_WRITE_COUNT @@ 2 :> MAX_READ_COUNT)

\* the test with loops long enough for both cursors to wrap
InitWrap ==
    /\ NewRing(2 ^ CapBits)
    /\ NewContexts(1 :> {"push"} @@ 2 :> {"read"},
                   1 :> WrapWrites @@ 2 :> WrapWrites * 3)

\* roles not separated: every context calls push_one and read_one
InitAny ==
    /\ NewRing(2 ^ CapBits)
    /\ \E l \in [1..NumCtx -> 0..TotalCalls] :
          /\ SumTo(l, NumCtx) = TotalCalls
          /\ NewContexts([c \in 1..NumCtx |-> {"push", "read"}], l)

\* the test's two threads and a third context that only calls available()
InitObs ==
    /\ NewRing(2 ^ CapBits)
    /\ NewContexts(1 :> {"push"} @@ 2 :> {"read"} @@ 3 :> {"available"},
                   1 :> MAX_WRITE_COUNT @@ 2 :> MAX_READ_COUNT
                     @@ 3 :> MaxQueries)

\* ------------------------------------------------------------------ steps
\* push_one -> lock_if_not_full -> full -> available: the load of write_idx
push_one(c) ==
    /\ pc[c] = "idle"
    /\ "push" \in roles[c]
    /\ i[c] < limit[c]
    /\ op' = [op EXCEPT ![c] = "push"]
    /\ write' = [write EXCEPT ![c] = write_idx]
    /\ pc' = [pc EXCEPT ![c] = "available_read"]
    /\ UNCHANGED <<ring, cfg, i, cur_idx, ret, byt, counters, hist>>

\* available: the load of read_idx, the assertion, then full() decides
\* between lock_me and the return of 0 (counted by the producer loop)
available_read(c) ==
    /\ pc[c] = "available_read"
    /\ LET avail == wrapping_sub(write[c], read_idx) IN
         IF avail > N
         THEN /\ pc' = [pc EXCEPT ![c] = "panicked"]
              /\ UNCHANGED <<i, ret, counters>>
         ELSE IF full(avail, N)
         THEN /\ pc' = [pc EXCEPT ![c] = "idle"]
              /\ ret' = [ret EXCEPT ![c] = 0]
              /\ i' = [i EXCEPT ![c] = @ + 1]
              /\ blocked_write_count' = blocked_write_count + 1
              /\ UNCHANGED <<total_write_count, outer_read_count>>
         ELSE /\ pc' = [pc EXCEPT ![c] = "lock_cas"]
              /\ UNCHANGED <<i, ret, counters>>
    /\ UNCHANGED <<ring, cfg, op, write, cur_idx, byt, hist>>

\* read_one -> lock_if_not_empty -> empty: the load of write_idx
read_one(c) ==
    /\ pc[c] = "idle"
    /\ "read" \in roles[c]
    /\ i[c] < limit[c]
    /\ op' = [op EXCEPT ![c] = "read"]
    /\ write' = [write EXCEPT ![c] = write_idx]
    /\ pc' = [pc EXCEPT ![c] = "empty_read"]
    /\ UNCHANGED <<ring, cfg, i, cur_idx, ret, byt, counters, hist>>

\* empty: the load of read_idx and the comparison; (0, 0) when equal
empty_read(c) ==
    /\ pc[c] = "empty_read"
    /\ IF empty(write[c], read_idx)
       THEN /\ pc' = [pc EXCEPT ![c] = "idle"]
            /\ ret' = [ret EXCEPT ![c] = 0]
            /\ byt' = [byt EXCEPT ![c] = 0]
            /\ i' = [i EXCEPT ![c] = @ + 1]
       ELSE /\ pc' = [pc EXCEPT ![c] = "lock_cas"]
            /\ UNCHANGED <<i, ret, byt>>
    /\ UNCHANGED <<ring, cfg, op, write, cur_idx, counters, hist>>

\* lock_me: the outer compare_and_swap(false, true)
lock_me_cas(c) ==
    /\ pc[c] = "lock_cas"
    /\ LET r == compare_and_swap(mut_lock, FALSE, TRUE) IN
         /\ mut_lock' = r.val
         /\ pc' = [pc EXCEPT ![c] =
                     IF ~acquired(r.prev) THEN "lock_spin"
                     ELSE IF op[c] = "push" THEN "push_fetch_add"
                     ELSE "read_count_add"]
    /\ UNCHANGED <<N, buf, read_idx, write_idx, read_count, cfg,
                   op, i, write, cur_idx, ret, byt, counters, hist>>

\* lock_me: the inner load; spin_func has no effect on the buffer
lock_me_spin(c) ==
    /\ pc[c] = "lock_spin"
    /\ pc' = [pc EXCEPT ![c] = IF mut_lock THEN "lock_spin" ELSE "lock_cas"]
    /\ UNCHANGED <<ring, cfg, op, i, write, cur_idx, ret, byt, counters, hist>>

\* write_idx.fetch_add(1)
push_fetch_add(c) ==
    /\ pc[c] = "push_fetch_add"
    /\ cur_idx' = [cur_idx EXCEPT ![c] = write_idx]
    /\ write_idx' = wrapping_add(write_idx, 1)
    /\ pc' = [pc EXCEPT ![c] = "push_store"]
    /\ UNCHANGED <<N, buf, read_idx, mut_lock, read_count, cfg,
                   op, i, write, ret, byt, counters, hist>>

\* self.buf[cur_write_idx & (N - 1)] = byte
push_store(c) ==
    /\ pc[c] = "push_store"
    /\ buf' = [buf EXCEPT ![slot(cur_idx[c], N)] = arg(i[c])]
    /\ pc' = [pc EXCEPT ![c] = "push_unlock"]
    /\ UNCHANGED <<N, read_idx, write_idx, mut_lock, read_count, cfg,
                   op, i, write, cur_idx, ret, byt, counters, hist>>

\* unlock_me, the return of 1 and the producer loop's bookkeeping
push_unlock(c) ==
    /\ pc[c] = "push_unlock"
    /\ mut_lock' = unlock_me(mut_lock)
    /\ ret' = [ret EXCEPT ![c] = 1]
    /\ total_write_count' = total_write_count + 1
    /\ pushed' = Append(pushed, arg(i[c]))
    /\ i' = [i EXCEPT ![c] = @ + 1]
    /\ pc' = [pc EXCEPT ![c] = "idle"]
    /\ UNCHANGED <<N, buf, read_idx, write_idx, read_count, cfg,
                   op, write, cur_idx, byt,
                   blocked_write_count, outer_read_count, readSeq>>

\* read_count.fetch_add(1)
read_count_add(c) ==
    /\ pc[c] = "read_count_add"
    /\ read_count' = wrapping_add(read_count, 1)
    /\ pc' = [pc EXCEPT ![c] = "read_fetch_add"]
    /\ UNCHANGED <<N, buf, read_idx, write_idx, mut_lock, cfg,
                   op, i, write, cur_idx, ret, byt, counters, hist>>

\* read_idx.fetch_add(1)
read_fetch_add(c) ==
    /\ pc[c] = "read_fetch_add"
    /\ cur_idx' = [cur_idx EXCEPT ![c] = read_idx]
    /\ read_idx' = wrapping_add(read_idx, 1)
    /\ pc' = [pc EXCEPT ![c] = "read_load"]
    /\ UNCHANGED <<N, buf, write_idx, mut_lock, read_count, cfg,
                   op, i, write, ret, byt, counters, hist>>

\* let byte = self.buf[cur_read_idx & (N - 1)]
read_load(c) ==
    /\ pc[c] = "read_load"
    /\ byt' = [byt EXCEPT ![c] = buf[slot(cur_idx[c], N)]]
    /\ pc' = [pc EXCEPT ![c] = "read_unlock"]
    /\ UNCHANGED <<ring, cfg, op, i, write, cur_idx, ret, counters, hist>>

\* unlock_me, the return of (1, byte) and the consumer loop's bookkeeping
read_unlock(c) ==
    /\ pc[c] = "read_unlock"
    /\ mut_lock' = unlock_me(mut_lock)
    /\ ret' = [ret EXCEPT ![c] = 1]
    /\ outer_read_count' = outer_read_count + 1
    /\ readSeq' = Append(readSeq, byt[c])
    /\ i' = [i EXCEPT ![c] = @ + 1]
    /\ pc' = [pc EXCEPT ![c] = "idle"]
    /\ UNCHANGED <<N, buf, read_idx, write_idx, read_count, cfg,
                   op, write, cur_idx, byt,
                   total_write_count, blocked_write_count, pushed>>

\* available() called directly: the load of write_idx
available_call(c) ==
    /\ pc[c] = "idle"
    /\ "available" \in roles[c]
    /\ i[c] < limit[c]
    /\ op' = [op EXCEPT ![c] = "available"]
    /\ write' = [write EXCEPT ![c] = write_idx]
    /\ pc' = [pc EXCEPT ![c] = "query_read"]
    /\ UNCHANGED <<ring, cfg, i, cur_idx, ret, byt, counters, hist>>

\* available(): the load of read_idx, the subtraction, the assertion and
\* the return of avail
available_return(c) ==
    /\ pc[c] = "query_read"
    /\ LET avail == available(write[c], read_idx) IN
         IF avail > N
         THEN /\ pc' = [pc EXCEPT ![c] = "panicked"]
              /\ UNCHANGED <<i, ret>>
         ELSE /\ pc' = [pc EXCEPT ![c] = "idle"]
              /\ ret' = [ret EXCEPT ![c] = avail]
              /\ i' = [i EXCEPT ![c] = @ + 1]
    /\ UNCHANGED <<ring, cfg, op, write, cur_idx, byt, counters, hist>>

Step(c) ==
    \/ push_one(c)
    \/ available_read(c)
    \/ read_one(c)
    \/ empty_read(c)
    \/ lock_me_cas(c)
    \/ lock_me_spin(c)
    \/ push_fetch_add(c)
    \/ push_store(c)
    \/ push_unlock(c)
    \/ read_count_add(c)
    \/ read_fetch_add(c)
    \/ read_load(c)
    \/ read_unlock(c)

Next ==
    \/ \E c \in Ctx : push_one(c)
    \/ \E c \in Ctx : available_read(c)
    \/ \E c \in Ctx : read_one(c)
    \/ \E c \in Ctx : empty_read(c)
    \/ \E c \in Ctx : lock_me_cas(c)
    \/ \E c \in Ctx : lock_me_spin(c)
    \/ \E c \in Ctx : push_fetch_add(c)
    \/ \E c \in Ctx : push_store(c)
    \/ \E c \in Ctx : push_unlock(c)
    \/ \E c \in Ctx : read_count_add(c)
    \/ \E c \in Ctx : read_fetch_add(c)
    \/ \E c \in Ctx : read_load(c)
    \/ \E c \in Ctx : read_unlock(c)

NextObs ==
    \/ Next
    \/ \E c \in Ctx : available_call(c)
    \/ \E c \in Ctx : available_return(c)

\* one producer, one consumer (the test)
Spec == Init /\ [][Next]_vars

\* the same under a scheduler that is fair to each thread
SpecFair == Spec /\ \A c \in {1, 2} : WF_vars(Step(c))

\* one producer, one consumer, any capacity
SpecCap == InitCap /\ [][Next]_vars

\* one producer, one consumer, cursors wrapping
SpecWrap == InitWrap /\ [][Next]_vars

\* one producer, one consumer and an observer calling available()
SpecObs == InitObs /\ [][NextObs]_vars

\* NumCtx contexts, each calling push_one and read_one
SpecAny == InitAny /\ [][Next]_vars

\* ------------------------------------------------------------ vocabulary
InCS(c) == pc[c] \in {"push_fetch_add", "push_store", "push_unlock",
                      "read_count_add", "read_fetch_add", "read_load",
                      "read_unlock"}
Quiescent == \A c \in Ctx : pc[c] = "idle"
Finished(c) == pc[c] = "idle" /\ i[c] = limit[c]
AllFinished == \A c \in Ctx : Finished(c)
IsPrefix(s, t) == Len(s) <= Len(t) /\ \A k \in 1..Len(s) : s[k] = t[k]

\* the bytes stored and not yet read, counted through the cursors
Stored == wrapping_sub(write_idx, read_idx)
\* a step of context c that leaves position p
Leaves(c, p) == pc[c] = p /\ pc'[c] # p

\* ------------------------------------------------------------------ claims

Conservation ==
    /\ Quiescent => total_write_count - outer_read_count = Stored
    /\ (AllFinished /\ empty(write_idx, read_idx))
          => total_write_count = outer_read_count

\* no call in progress, bytes in the buffer, some already read
ConservationWitness ==
    /\ Quiescent
    /\ outer_read_count >= 2
    /\ total_write_count = outer_read_count + N

\* C3 (capacity bound): with one producer and one consumer the wrapping
\* difference write_idx - read_idx is in 0..N in every state, also in the
\* middle of a call.
CapacityBound == Stored \in 0..N

\* the buffer is full across the wrap of write_idx while both contexts are
\* in the middle of a call
CapacityBoundWitness ==
    /\ Stored = N
    /\ write_idx < read_idx
    /\ pc[1] = "available_read"
    /\ pc[2] = "lock_cas"

\* C4 (mutual exclusion): for any number of contexts, at most one is
\* between the return of lock_me and the completion of unlock_me, and the
\* flag is set whenever a context is about to fetch-add a cursor or to
\* access a slot.
MutualExclusion ==
    /\ Cardinality({c \in Ctx : InCS(c)}) <= 1
    /\ \A c \in Ctx : InCS(c) => mut_lock = TRUE

\* one context stores into a slot while the two others wait in lock_me
MutualExclusionWitness ==
    \E c \in Ctx :
        /\ pc[c] = "push_store"
        /\ \A d \in Ctx \ {c} : pc[d] \in {"lock_cas", "lock_spin"}
        /\ \E d \in Ctx \ {c} : op[d] = "push"

\* C5 (push on full): the step of push_one that observes available() == N
\* returns 0 at once, without going to lock_me, and neither it nor the
\* load before it changes write_idx, read_idx, a slot or the flag.
PushOnFull ==
    [][\A c \in Ctx :
          /\ (Leaves(c, "available_read")
                 /\ wrapping_sub(write[c], read_idx) = N)
               => /\ pc'[c] = "idle"
                  /\ ret'[c] = 0
                  /\ i'[c] = i[c] + 1
                  /\ UNCHANGED <<buf, read_idx, write_idx, mut_lock>>
          /\ (Leaves(c, "idle") /\ op'[c] = "push")
               => UNCHANGED <<buf, read_idx, write_idx, mut_lock>>]_vars

\* a push has just been rejected while the consumer holds the lock
PushOnFullWitness ==
    /\ pc[1] = "idle"
    /\ ret[1] = 0
    /\ blocked_write_count > 0
    /\ InCS(2)
    /\ mut_lock = TRUE

\* C6 (read on empty): the step of read_one that observes write == read
\* returns (0, 0) at once, without going to lock_me, and neither it nor
\* the load before it changes a cursor, read_count, a slot or the flag.
ReadOnEmpty ==
    [][\A c \in Ctx :
          /\ (Leaves(c, "empty_read") /\ write[c] = read_idx)
               => /\ pc'[c] = "idle"
                  /\ ret'[c] = 0
                  /\ byt'[c] = 0
                  /\ i'[c] = i[c] + 1
                  /\ UNCHANGED <<buf, read_idx, write_idx, mut_lock,
                                 read_count, outer_read_count>>
          /\ (Leaves(c, "idle") /\ op'[c] = "read")
               => UNCHANGED <<buf, read_idx, write_idx, mut_lock,
                              read_count, outer_read_count>>]_vars

\* a read has just returned (0, 0) after earlier reads returned bytes,
\* while the producer holds the lock
ReadOnEmptyWitness ==
    /\ pc[2] = "idle"
    /\ ret[2] = 0
    /\ i[2] > outer_read_count
    /\ outer_read_count > 0
    /\ InCS(1)

\* C7 (termination): under a scheduler fair to both threads every call
\* returns, both loops end and the flag is false from then on.
Termination == <>[](AllFinished /\ mut_lock = FALSE)

\* both loops are over after the consumer had to wait in lock_me: every
\* push was accepted, which needs reads in between
TerminationWitness ==
    /\ AllFinished
    /\ mut_lock = FALSE
    /\ total_write_count = MAX_WRITE_COUNT
    /\ outer_read_count > 0

\* C8 (capacity validation): no buffer exists on which two distinct cursor
\* values of one window map to the same slot; stated on the window in use:
\* the stored, unread bytes occupy pairwise distinct slots.
NoSlotAliasing ==
    \A a, b \in 0..(Stored - 1) :
        a # b => slot(wrapping_add(read_idx, a), N)
                   # slot(wrapping_add(read_idx, b), N)

\* C9 (no blocked writes): when both loops of the test are over, no
\* push_one attempt has returned 0.
NoBlockedWrites == AllFinished => blocked_write_count = 0

\* C10 (reads equal writes): when both loops of the test are over, the
\* successful reads number as many as the successful pushes.
ReadsEqualWrites == AllFinished => outer_read_count = total_write_count

\* cursor values a call in progress has reserved and not yet completed
PushInFlight ==
    Cardinality({c \in Ctx : pc[c] \in {"push_store", "push_unlock"}})
ReadInFlight ==
    Cardinality({c \in Ctx : pc[c] \in {"read_load", "read_unlock"}})

\* C11 (cursor wraparound): once write_idx has wrapped past the range of
\* usize, available() still equals the number of bytes stored and unread
\* (pushes completed or reserved minus reads completed or reserved), stays
\* in 0..N, and the bytes read are still a prefix of the bytes pushed.
WrapAround ==
    Len(pushed) >= UsizeMod =>
        /\ available(write_idx, read_idx)
             = (Len(pushed) + PushInFlight) - (Len(readSeq) + ReadInFlight)
        /\ available(write_idx, read_idx) \in 0..N
        /\ IsPrefix(readSeq, pushed)

\* both cursors have wrapped past the range of usize and every byte
\* pushed before and after the wrap was read in order
WrapAroundWitness ==
    /\ Len(pushed) > UsizeMod
    /\ Len(readSeq) > UsizeMod
    /\ readSeq = pushed
    /\ write_idx = 1
    /\ read_idx = 1

\* C12 (query consistency): on a snapshot of the two cursors, full() holds
\* exactly when available() == N, empty() exactly when available() == 0,
\* and vacant() + available() == N with vacant() in 0..N.
QueryConsistency ==
    LET a == available(write_idx, read_idx) IN
        /\ full(a, N) <=> (a = N)
        /\ empty(write_idx, read_idx) <=> (a = 0)
        /\ vacant(a, N) + a = N
        /\ vacant(a, N) \in 0..N

\* the buffer is full across the wrap of write_idx: full() holds, empty()
\* does not although write_idx < read_idx, and vacant() is 0
QueryConsistencyWitness ==
    /\ Quiescent
    /\ write_idx < read_idx
    /\ full(available(write_idx, read_idx), N)
    /\ ~empty(write_idx, read_idx)
    /\ vacant(available(write_idx, read_idx), N) = 0

\* C13 (lock never left held): in no state is the flag true while no
\* context is between lock_me and unlock_me; so a call that acquired the
\* lock has cleared the flag by its one release step when it returns.
LockNeverLeftHeld == (mut_lock = TRUE) => \E c \in Ctx : InCS(c)

\* a call has just returned 1 and left the flag false while another
\* context still spins in lock_me on the value it had seen
LockNeverLeftHeldWitness ==
    \E c, d \in Ctx :
        /\ pc[c] = "idle"
        /\ ret[c] = 1
        /\ i[c] > 0
        /\ mut_lock = FALSE
        /\ pc[d] = "lock_spin"

\* C14 (no read of an unwritten slot): with one producer and one consumer,
\* when read_one loads its slot no push_one is between its fetch_add and
\* its store, and the slot holds the byte stored by the push that reserved
\* the same cursor value (the next accepted byte not yet read).
NoUnwrittenRead ==
    \A c \in Ctx :
        pc[c] = "read_load" =>
            /\ \A d \in Ctx : pc[d] # "push_store"
            /\ Len(pushed) > Len(readSeq)
            /\ cur_idx[c] = Len(readSeq) % UsizeMod
            /\ buf[slot(cur_idx[c], N)] = pushed[Len(readSeq) + 1]

\* the producer has reserved a cursor value and not yet stored; the
\* consumer has already seen the advanced write_idx, wants that very slot
\* (which still holds an older byte) and is held in lock_me
NoUnwrittenReadWitness ==
    /\ pc[1] = "push_store"
    /\ pc[2] = "lock_spin"
    /\ read_idx = cur_idx[1]
    /\ write[2] = wrapping_add(cur_idx[1], 1)
    /\ buf[slot(cur_idx[1], N)] # arg(i[1])
    /\ Len(readSeq) >= N

\* C15 (cursor bound with unrestricted callers): when any context may call
\* push_one and read_one, write_idx - read_idx (wrapping) stays in 0..N and
\* the assertion of available() never fires.
CursorBoundAnyCaller ==
    /\ Stored \in 0..N
    /\ \A c \in Ctx : pc[c] # "panicked"

\* C16 (no overwrite of unread data): with one producer and one consumer,
\* the slot push_one is about to store into is the slot of no cursor value
\* from read_idx up to (excluding) the reserved one.
NoOverwrite ==
    \A c \in Ctx :
        pc[c] = "push_store" =>
            \A d \in 1..wrapping_sub(cur_idx[c], read_idx) :
                slot(wrapping_sub(cur_idx[c], d), N) # slot(cur_idx[c], N)

\* the producer is about to store into the last free slot, N - 1 unread
\* bytes occupy the others, and the reserved cursor value has wrapped
NoOverwriteWitness ==
    /\ pc[1] = "push_store"
    /\ wrapping_sub(cur_idx[1], read_idx) = N - 1
    /\ cur_idx[1] < read_idx
    /\ Len(readSeq) > 0

\* C17 (effect of a successful push_one(b)): its fetch_add raises write_idx
\* by exactly 1 (mod 2^w) and keeps the old value; its store puts b into
\* the slot (old write_idx) mod N and no other; its release leaves the flag
\* false and returns 1; none of the steps of the call changes read_idx,
\* read_count or another slot.
PushEffect ==
    [][\A c \in Ctx :
          /\ Leaves(c, "push_fetch_add")
               => /\ write_idx' = (write_idx + 1) % UsizeMod
                  /\ cur_idx'[c] = write_idx
                  /\ UNCHANGED <<buf, read_idx, read_count>>
          /\ Leaves(c, "push_store")
               => /\ buf'[cur_idx[c] % N] = i[c] % ByteMod
                  /\ \A s \in DOMAIN buf \ {cur_idx[c] % N} : buf'[s] = buf[s]
                  /\ DOMAIN buf' = DOMAIN buf
                  /\ UNCHANGED <<write_idx, read_idx, read_count>>
          /\ Leaves(c, "push_unlock")
               => /\ write_idx = (cur_idx[c] + 1) % UsizeMod
                  /\ buf[cur_idx[c] % N] = i[c] % ByteMod
                  /\ mut_lock' = FALSE
                  /\ ret'[c] = 1
                  /\ total_write_count' = total_write_count + 1
                  /\ UNCHANGED <<buf, write_idx, read_idx, read_count>>
          /\ (op[c] = "push" /\ pc[c] # pc'[c])
               => UNCHANGED <<read_idx, read_count, outer_read_count>>]_vars

\* a push has returned 1 after storing into slot 0 for the second time
\* round, with the write cursor wrapped
PushEffectWitness ==
    /\ pc[1] = "idle"
    /\ ret[1] = 1
    /\ mut_lock = FALSE
    /\ total_write_count = UsizeMod + 1
    /\ write_idx = 1
    /\ buf[0] = arg(i[1] - 1)

\* C18 (effect of a successful read_one): its fetch_add raises read_idx by
\* exactly 1 (mod 2^w) and keeps the old value; it returns 1 and the
\* content of the slot (old read_idx) mod N; its release leaves the flag
\* false; none of the steps of the call changes write_idx or a slot.
ReadEffect ==
    [][\A c \in Ctx :
          /\ Leaves(c, "read_fetch_add")
               => /\ read_idx' = (read_idx + 1) % UsizeMod
                  /\ cur_idx'[c] = read_idx
          /\ Leaves(c, "read_load")
               => byt'[c] = buf[cur_idx[c] % N]
          /\ Leaves(c, "read_unlock")
               => /\ read_idx = (cur_idx[c] + 1) % UsizeMod
                  /\ byt[c] = buf[cur_idx[c] % N]
                  /\ byt'[c] = byt[c]
                  /\ ret'[c] = 1
                  /\ mut_lock' = FALSE
                  /\ readSeq' = Append(readSeq, buf[cur_idx[c] % N])
          /\ (op[c] = "read" /\ pc[c] # pc'[c])
               => UNCHANGED <<buf, write_idx, total_write_count>>]_vars

\* a read has returned (1, b) with b the content of slot 0 read for the
\* second time round, with the read cursor wrapped
ReadEffectWitness ==
    /\ pc[2] = "idle"
    /\ ret[2] = 1
    /\ mut_lock = FALSE
    /\ outer_read_count = UsizeMod + 1
    /\ read_idx = 1
    /\ byt[2] = buf[0]
    /\ byt[2] = readSeq[Len(readSeq)]

\* C19 (no spurious rejection): with one producer and one consumer,
\* - the step of push_one that returns 0 is taken in a state where the
\*   buffer holds N unread bytes (the instant of its load of read_idx);
\* - read_one's load of write_idx records the current write_idx, nothing
\*   moves read_idx or the recorded value between that load and the
\*   decision, and the step that returns 0 finds them equal: the buffer
\*   held 0 unread bytes at the instant of the load of write_idx.
NoSpuriousRejection ==
    [][\A c \in Ctx :
          /\ (Leaves(c, "available_read") /\ pc'[c] = "idle")
               => Stored = N
          /\ (Leaves(c, "idle") /\ pc'[c] = "empty_read")
               => /\ write'[c] = write_idx
                  /\ (write_idx = read_idx) <=> (Stored = 0)
          /\ (pc[c] = "empty_read" /\ pc'[c] = "empty_read")
               => (read_idx' = read_idx /\ write'[c] = write[c])
          /\ (Leaves(c, "empty_read") /\ pc'[c] = "idle")
               => wrapping_sub(write[c], read_idx) = 0]_vars

\* after at least one rejected push, the consumer is about to return
\* (0, 0) on cursors loaded at different instants: the buffer was empty
\* when it loaded write_idx and holds a byte by now
NoSpuriousRejectionWitness ==
    /\ blocked_write_count > 0
    /\ pc[2] = "empty_read"
    /\ write[2] = read_idx
    /\ Stored > 0

\* C20 (available() is panic-free): a context that only calls available()
\* while push_one and read_one run never fails the assertion avail <= N.
AvailablePanicFree ==
    \A c \in Ctx : "available" \in roles[c] => pc[c] # "panicked"
====
